---- MODULE Spec2Model ----
(***************************************************************************)
(* Model of the constrained spline fitter and assembler of src/model.py.   *)
(*                                                                         *)
(* Real numbers are modelled by integers: all x-coordinates, knots, bounds *)
(* and the sampling step are integers, and the coefficient matrix has      *)
(* integer entries.  The convex solver (cvxpy) is not part of the          *)
(* repository; it is modelled as an environment that, when it answers      *)
(* "optimal", hands back ANY matrix of the search box that satisfies every *)
(* constraint fit_parameter built, and otherwise a status and no matrix.   *)
(***************************************************************************)
EXTENDS Integers, Sequences, FiniteSets, TLC

\* ---------------------------------------------------------------- bounds
MaxX      == 2   \* x-coordinates range over -MaxX..MaxX
MaxKnots  == 3   \* longest knot list
MaxPoints == 1   \* longest observation list
MaxStep   == 2   \* largest sampling step
MaxDegree == 4   \* largest polynomial degree
MaxCoef   == 1   \* solver search box: coefficients in -MaxCoef..MaxCoef
MaxOrder  == 3   \* derivative orders 0..MaxOrder are requested from the assembler

\* ------------------------------------------------------ program constants
MinDegree == 3   \* model.py: "if degree_of_spline < 3"

Xs == (0 - MaxX)..MaxX

None == <<>>          \* Python's None (a matrix has at least one column)
NoneIdx == 0 - 1      \* None inside the (left, right) pair of get_location

VARIABLES
    points, support_points, konvex_until, bounds,
    degree_of_spline, sampling_interval,   \* arguments of fit_parameter
    box,            \* half-width of the solver's search box (environment)
    pc,             \* "start" | "raised" | "returned"
    error,          \* "none" or the exception that left fit_parameter
    matrixVar,      \* shape of the cv.Variable, None before it is created
    constraints,    \* the list `constraints`
    differences,    \* the list `differences`, one entry per observation
    solveCalls,     \* number of problem.solve() invocations
    problem,        \* what the solver left in the problem object
    ret,            \* the triple returned by fit_parameter
    derivative,     \* argument of the last assemble_splines call
    asm,            \* "none" | "built" | "ValueError" | "AttributeError"
    evalCalls,      \* 1 once the evaluator has been called, else 0
    evalX, evalErr, evalSeg, evalResult,  \* that evaluator call
    scaleArgs,      \* arguments of the scale_x_value call
    scaled,         \* its outcome, NoCall before the call
    unscaleArgs,    \* arguments of the unscale_x_value call
    unscaled,       \* its outcome, NoCall before the call
    wrapArgs,       \* domain and target interval given to unscale_splines
    wrapper,        \* "none" | "built": spline_original exists
    x_orig,         \* argument of the spline_original call
    wrapOut,        \* its outcome, NoCall before the call
    \* ---- run.py: the globals
    g_points,       \* global `points`: (strike - underlying, mark price)
    stack,          \* global `stack`: the options still to poll, in order
    g_support_points,           \* global `support_points`
    current_underlying_price,   \* None, or <<price>>
    \* ---- run.py: the polling thread fetch_points_loop
    tpc,            \* "seed" | "head" | "try" | "set_price" | "push" | "exit"
    options,        \* the list the stack was seeded with
    option,         \* the option popped in this iteration
    ticker,         \* the ticker read in this iteration
    caught,         \* TRUE when this iteration ended in the except branch
    polled,         \* the options popped so far, in order
    iterStart,      \* points and price as they were when `option` was popped
    \* ---- run.py: one run of the callback update_function_fit_plot
    input_text,     \* the text last handed to update_support_points
    cpc,            \* "idle" | "check" | "copy_points" | "copy_support"
                    \* | "fit" | "finish" | "done"
    cb_konvex_until,            \* local konvex_until
    copied_points, copied_support_points,
    fitArgs,        \* what the run handed to fit_parameter, None if nothing
    cbMatrix,       \* the matrix fit_parameter returned, None if it left none
    cbRange,        \* <<original_x_min, original_x_max>> once computed
    cbOut           \* "none" | "empty" | "returned" | the exception raised

inputs == <<points, support_points, konvex_until, bounds,
            degree_of_spline, sampling_interval, box>>
fitState == <<pc, error, matrixVar, constraints, differences,
              solveCalls, problem, ret>>
asmState == <<derivative, asm>>
evalState == <<evalCalls, evalX, evalErr, evalSeg, evalResult>>
scaleState == <<scaleArgs, scaled, unscaleArgs, unscaled>>
wrapState == <<wrapArgs, wrapper, x_orig, wrapOut>>
globals == <<g_points, stack, g_support_points, current_underlying_price>>
pollState == <<tpc, options, option, ticker, caught, polled, iterStart>>
cbState == <<cpc, cb_konvex_until, copied_points, copied_support_points,
             fitArgs, cbMatrix, cbRange, cbOut>>
dashState == <<globals, pollState, cbState, input_text>>
coreState == <<inputs, fitState, asmState, evalState, scaleState, wrapState>>
vars == <<inputs, fitState, asmState, evalState, scaleState, wrapState,
          dashState>>

\* ------------------------------------------------------------- arithmetic
\* x**n for n >= 0, with 0**0 = 1 as in Python
Pow(x, n) == IF n = 0 THEN 1 ELSE x ^ n

RECURSIVE SeqSumFrom(_, _)
SeqSumFrom(s, k) == IF k > Len(s) THEN 0 ELSE s[k] + SeqSumFrom(s, k + 1)
SeqSum(s) == SeqSumFrom(s, 1)

Range(s) == {s[k] : k \in DOMAIN s}
Min(S) == CHOOSE a \in S : \A b \in S : a <= b
Max(S) == CHOOSE a \in S : \A b \in S : a >= b

\* matrix[j, i] of the source: row j, column i, both 0-based.
\* A matrix is the sequence of its columns.
At(m, j, i) == m[i + 1][j + 1]
NumRows(m) == Len(m[1])
NumCols(m) == Len(m)

\* ------------------------------------------------- fit_parameter: checks
IsSorted(sp) == \A k \in 1..(Len(sp) - 1) : sp[k] <= sp[k + 1]

\* Faulty variant: validation 4 (duplicates) left out.
ValidationError_NoDuplicates(pts, sp, ku, bnds, deg) ==
    IF bnds[1] >= bnds[2] THEN "ValueError:bounds"
    ELSE IF ~IsSorted(sp) THEN "ValueError:unsorted"
    ELSE IF ~(\A k \in DOMAIN sp : bnds[1] <= sp[k] /\ sp[k] <= bnds[2])
         THEN "ValueError:knot_outside"
    ELSE IF \E k \in DOMAIN pts : ~(bnds[1] <= pts[k][1] /\ pts[k][1] <= bnds[2])
         THEN "ValueError:point_outside"
    ELSE IF ku \notin Range(sp) THEN "ValueError:pivot"
    ELSE IF deg < MinDegree THEN "ValueError:degree"
    ELSE "none"

\* The seven validations in source order; the first that fails is raised.
ValidationError(pts, sp, ku, bnds, deg) ==
    IF bnds[1] >= bnds[2] THEN "ValueError:bounds"
    ELSE IF ~IsSorted(sp) THEN "ValueError:unsorted"
    ELSE IF ~(\A k \in DOMAIN sp : bnds[1] <= sp[k] /\ sp[k] <= bnds[2])
         THEN "ValueError:knot_outside"
    ELSE IF Cardinality(Range(sp)) # Len(sp) THEN "ValueError:duplicate"
    ELSE IF \E k \in DOMAIN pts : ~(bnds[1] <= pts[k][1] /\ pts[k][1] <= bnds[2])
         THEN "ValueError:point_outside"
    ELSE IF ku \notin Range(sp) THEN "ValueError:pivot"
    ELSE IF deg < MinDegree THEN "ValueError:degree"
    ELSE "none"

\* ------------------------------------- fit_parameter: polynomial expressions
\* sum(matrix[j, i] * x**(d - j) for j in range(d + 1))
ExprValue(m, i, x, d) ==
    SeqSum([jj \in 1..(d + 1) |->
        LET j == jj - 1 IN At(m, j, i) * Pow(x, d - j)])

\* Faulty variant: the power-rule factor (d - j) is missing.
ExprDer1_NoFactor(m, i, x, d) ==
    SeqSum([jj \in 1..d |->
        LET j == jj - 1 IN At(m, j, i) * Pow(x, d - j - 1)])

\* sum(matrix[j, i] * (d - j) * x**(d - j - 1) for j in range(d))
ExprDer1(m, i, x, d) ==
    SeqSum([jj \in 1..d |->
        LET j == jj - 1 IN At(m, j, i) * (d - j) * Pow(x, d - j - 1)])

\* Faulty variant: the factor (d - j) * (d - j - 1) is missing.
ExprDer2_NoFactor(m, i, x, d) ==
    SeqSum([jj \in 1..(d - 1) |->
        LET j == jj - 1 IN At(m, j, i) * Pow(x, d - j - 2)])

\* sum(matrix[j, i] * (d - j) * (d - j - 1) * x**(d - j - 2) for j in range(d - 1))
ExprDer2(m, i, x, d) ==
    SeqSum([jj \in 1..(d - 1) |->
        LET j == jj - 1
        IN At(m, j, i) * (d - j) * (d - j - 1) * Pow(x, d - j - 2)])

\* sum(matrix[j, i] * (d-j) * (d-j-1) * (d-j-2) * x0**(d - j - 3) for j in range(d - 2))
ExprDer3(m, i, x, d) ==
    SeqSum([jj \in 1..(d - 2) |->
        LET j == jj - 1
        IN At(m, j, i) * (d - j) * (d - j - 1) * (d - j - 2) * Pow(x, d - j - 3)])

Expr(der, m, i, x, d) ==
    CASE der = 0 -> ExprValue(m, i, x, d)
      [] der = 1 -> ExprDer1(m, i, x, d)
      [] der = 2 -> ExprDer2(m, i, x, d)
      [] OTHER   -> ExprDer3(m, i, x, d)

\* ------------------------------------------ fit_parameter: the constraints
\* A constraint is a record: op "eq" states Expr(der, col) == Expr(der, col2),
\* op "ge" / "le" states Expr(der, col) >= 0 / <= 0, all evaluated at x.
Con(op, der, col, col2, x) ==
    [op |-> op, der |-> der, col |-> col, col2 |-> col2, x |-> x]

\* Faulty variant: the second derivatives are not tied at the knot.
KnotConstraints_NoDer2(sp, i) ==
    LET x == sp[i + 1]
    IN << Con("eq", 0, i, i + 1, x),
          Con("eq", 1, i, i + 1, x) >>

\* The three constraints appended for knot index i (0-based).
KnotConstraints(sp, i) ==
    LET x == sp[i + 1]
    IN << Con("eq", 0, i, i + 1, x),
          Con("eq", 1, i, i + 1, x),
          Con("eq", 2, i, i + 1, x) >>

\* for index_of_support_point in range(len(support_points)): ...
RECURSIVE EqConstraints(_, _)
EqConstraints(sp, n) ==
    IF n = 0 THEN <<>>
    ELSE EqConstraints(sp, n - 1) \o KnotConstraints(sp, n - 1)

\* np.arange(start, stop, step) for step # 0
ArangeLen(start, stop, step) ==
    IF step > 0
    THEN (IF stop > start THEN ((stop - start) + step - 1) \div step ELSE 0)
    ELSE (IF stop < start
          THEN ((start - stop) + (0 - step) - 1) \div (0 - step) ELSE 0)

Arange(start, stop, step) ==
    [k \in 1..ArangeLen(start, stop, step) |-> start + (k - 1) * step]

\* Segment i runs from SegStart to SegEnd.
SegStart(sp, bnds, i) == IF i = 0 THEN bnds[1] ELSE sp[i]
SegEnd(sp, bnds, i) == IF i < Len(sp) THEN sp[i + 1] ELSE bnds[2]

\* Faulty variant: the sample on the pivot gets a third-derivative
\* constraint as well (x0 <= konvex_until).
SampleConstraints_AtPivot(i, x0, ku) ==
    << Con("ge", 2, i, i, x0) >> \o
    (IF x0 <= ku THEN << Con("ge", 3, i, i, x0) >>
     ELSE << Con("le", 3, i, i, x0) >>)

\* The constraints appended for one sample x0 of segment i.
SampleConstraints(i, x0, ku) ==
    << Con("ge", 2, i, i, x0) >> \o
    (IF x0 < ku THEN << Con("ge", 3, i, i, x0) >>
     ELSE IF x0 > ku THEN << Con("le", 3, i, i, x0) >>
     ELSE <<>>)

RECURSIVE SamplesConstraints(_, _, _, _)
SamplesConstraints(i, xs, n, ku) ==
    IF n = 0 THEN <<>>
    ELSE SamplesConstraints(i, xs, n - 1, ku) \o SampleConstraints(i, xs[n], ku)

x_tests(sp, bnds, step, i) ==
    Arange(SegStart(sp, bnds, i), SegEnd(sp, bnds, i), step)

\* for i in range(len(support_points) + 1): ...   (segments 0..n-1)
RECURSIVE ShapeConstraints(_, _, _, _, _)
ShapeConstraints(sp, bnds, ku, step, n) ==
    IF n = 0 THEN <<>>
    ELSE ShapeConstraints(sp, bnds, ku, step, n - 1) \o
         LET xs == x_tests(sp, bnds, step, n - 1)
         IN SamplesConstraints(n - 1, xs, Len(xs), ku)

Holds(c, m, d) ==
    CASE c.op = "eq" -> Expr(c.der, m, c.col, c.x, d) = Expr(c.der, m, c.col2, c.x, d)
      [] c.op = "ge" -> Expr(c.der, m, c.col, c.x, d) >= 0
      [] OTHER       -> Expr(c.der, m, c.col, c.x, d) <= 0

\* ------------------------------------------- fit_parameter: get_location
\* Faulty variant: strict comparisons in the loop.
get_location_strict(point, sp) ==
    IF point[1] <= sp[1] THEN <<NoneIdx, 0>>
    ELSE IF point[1] >= sp[Len(sp)] THEN <<Len(sp) - 1, NoneIdx>>
    ELSE LET hits == {i \in 0..(Len(sp) - 2) :
                        sp[i + 1] < point[1] /\ point[1] < sp[i + 2]}
         IN IF hits = {} THEN None ELSE <<Min(hits), Min(hits) + 1>>

\* Faulty variant: the loop keeps the last matching interval, not the first.
get_location_last(point, sp) ==
    IF point[1] <= sp[1] THEN <<NoneIdx, 0>>
    ELSE IF point[1] >= sp[Len(sp)] THEN <<Len(sp) - 1, NoneIdx>>
    ELSE LET hits == {i \in 0..(Len(sp) - 2) :
                        sp[i + 1] <= point[1] /\ point[1] <= sp[i + 2]}
         IN IF hits = {} THEN None ELSE <<Max(hits), Max(hits) + 1>>

\* Returns the pair (left, right), or None when the function falls off its
\* end without a return statement.
get_location(point, sp) ==
    IF point[1] <= sp[1] THEN <<NoneIdx, 0>>
    ELSE IF point[1] >= sp[Len(sp)] THEN <<Len(sp) - 1, NoneIdx>>
    ELSE LET hits == {i \in 0..(Len(sp) - 2) :
                        sp[i + 1] <= point[1] /\ point[1] <= sp[i + 2]}
         IN IF hits = {} THEN None ELSE <<Min(hits), Min(hits) + 1>>

\* i = right_index if right_index is not None else len(support_points)
SegmentOf(point, sp) ==
    LET loc == get_location(point, sp)
    IN IF loc[2] # NoneIdx THEN loc[2] ELSE Len(sp)

\* One entry of `differences`: the residual f_i(x) - y of an observation.
Difference(point, sp) ==
    [x |-> point[1], y |-> point[2], i |-> SegmentOf(point, sp)]

Differences(pts, sp) == [k \in DOMAIN pts |-> Difference(pts[k], sp)]

\* Faulty variant: y is not subtracted.
Residual_NoY(df, m, d) == ExprValue(m, df.i, df.x, d)

Residual(df, m, d) == ExprValue(m, df.i, df.x, d) - df.y

\* cv.sum_squares(cv.vstack(differences))
Objective(dfs, m, d) ==
    SeqSum([k \in DOMAIN dfs |-> Residual(dfs[k], m, d) * Residual(dfs[k], m, d)])

\* ------------------------------------------------------------ the solver
\* The solver is an external library.  Its answer is modelled as a choice:
\* "optimal" with any matrix of the search box that satisfies every
\* constraint of the list, or a non-optimal status with no matrix.
Columns(d, b) == [1..(d + 1) -> (0 - b)..b]

\* Constraints on column c alone, and constraints that tie column c to a
\* lower column.
OwnCons(cons, c) ==
    {k \in DOMAIN cons : cons[k].col = c /\ cons[k].col2 = c}
TieCons(cons, c) ==
    {k \in DOMAIN cons :
        /\ cons[k].col # cons[k].col2
        /\ (IF cons[k].col >= cons[k].col2 THEN cons[k].col ELSE cons[k].col2) = c}

\* Candidate columns for position c: those satisfying the constraints that
\* mention no other column.
ColumnsAt(cons, d, c, b) ==
    {cl \in Columns(d, b) :
        \A k \in OwnCons(cons, c) : Holds(cons[k], [n \in 1..(c + 1) |-> cl], d)}

\* All matrices with columns 0..c that satisfy the constraints on those
\* columns, built column by column.
RECURSIVE Feasible(_, _, _, _)
Feasible(cons, d, c, b) ==
    IF c = 0
    THEN {<<cl>> : cl \in ColumnsAt(cons, d, 0, b)}
    ELSE {Append(p[1], p[2]) :
            p \in {q \in Feasible(cons, d, c - 1, b) \X ColumnsAt(cons, d, c, b) :
                \A k \in TieCons(cons, c) : Holds(cons[k], Append(q[1], q[2]), d)}}

NonOptimal == {"infeasible", "unbounded", "solver_error"}

\* problem.solve(): the states the problem object can be left in.
Solve(cons, dfs, d, ncols, b) ==
    {[status |-> "optimal", value |-> <<Objective(dfs, m, d)>>, matrix |-> m] :
        m \in Feasible(cons, d, ncols - 1, b)}
    \cup {[status |-> st, value |-> None, matrix |-> None] : st \in NonOptimal}

NoProblem == [status |-> "", value |-> None, matrix |-> None]

\* Faulty variant: a zero matrix is substituted when the solver left none.
FitReturn_Fallback(prob) ==
    [status |-> prob.status, value |-> prob.value,
     matrix |-> IF prob.matrix = None THEN << <<0, 0, 0, 0>> >> ELSE prob.matrix]

\* return problem.status, problem.value, matrix.value
FitReturn(prob) ==
    [status |-> prob.status, value |-> prob.value, matrix |-> prob.matrix]

\* ---------------------------------------------------- fit_parameter: steps
\* Faulty variant: the sortedness check sorts the caller's list in place
\* (support_points.sort()) instead of comparing it with a sorted copy.
fit_parameter_invalid_SortsInPlace ==
    /\ pc = "start"
    /\ ValidationError(points, support_points, konvex_until, bounds,
                       degree_of_spline) # "none"
    /\ pc' = "raised"
    /\ error' = ValidationError(points, support_points, konvex_until, bounds,
                                degree_of_spline)
    /\ support_points' = SortSeq(support_points, LAMBDA a, b : a < b)
    /\ UNCHANGED <<dashState, points, konvex_until, bounds, degree_of_spline,
                   sampling_interval, box, matrixVar, constraints, differences,
                   solveCalls, problem, ret, asmState, evalState, scaleState,
                   wrapState>>

\* A validation fails: the exception leaves the function before line 78.
fit_parameter_invalid ==
    /\ pc = "start"
    /\ ValidationError(points, support_points, konvex_until, bounds,
                       degree_of_spline) # "none"
    /\ pc' = "raised"
    /\ error' = ValidationError(points, support_points, konvex_until, bounds,
                                degree_of_spline)
    /\ UNCHANGED <<dashState, inputs, matrixVar, constraints, differences, solveCalls,
                   problem, ret, asmState, evalState, scaleState, wrapState>>

\* Step 0: np.arange raises while the grid of the first segment is built.
fit_parameter_zero_step ==
    /\ pc = "start"
    /\ ValidationError(points, support_points, konvex_until, bounds,
                       degree_of_spline) = "none"
    /\ sampling_interval = 0
    /\ pc' = "raised"
    /\ error' = "ArangeError"
    /\ matrixVar' = <<degree_of_spline + 1, Len(support_points) + 1>>
    /\ constraints' = EqConstraints(support_points, Len(support_points))
    /\ UNCHANGED <<dashState, inputs, differences, solveCalls, problem, ret,
                   asmState, evalState, scaleState, wrapState>>

\* Validation passes and the grid can be built: constraints, residuals,
\* one solve, return.
fit_parameter_solve ==
    /\ pc = "start"
    /\ ValidationError(points, support_points, konvex_until, bounds,
                       degree_of_spline) = "none"
    /\ sampling_interval # 0
    /\ matrixVar' = <<degree_of_spline + 1, Len(support_points) + 1>>
    /\ constraints' =
          EqConstraints(support_points, Len(support_points)) \o
          ShapeConstraints(support_points, bounds, konvex_until,
                           sampling_interval, Len(support_points) + 1)
    /\ IF \E k \in DOMAIN points : get_location(points[k], support_points) = None
       THEN /\ pc' = "raised"
            /\ error' = "TypeError"
            /\ UNCHANGED <<differences, solveCalls, problem, ret>>
       ELSE /\ differences' = Differences(points, support_points)
            /\ solveCalls' = solveCalls + 1
            /\ problem' \in Solve(constraints', differences', degree_of_spline,
                                  Len(support_points) + 1, box)
            /\ ret' = FitReturn(problem')
            /\ pc' = "returned"
            /\ error' = "none"
    /\ UNCHANGED <<dashState, inputs, asmState, evalState, scaleState, wrapState>>

\* ------------------------------------------------------- assemble_splines
\* Faulty variant: the derivative order is not checked at construction.
AssembleOutcome_NoOrderCheck(m, order) ==
    IF m = None THEN "AttributeError" ELSE "built"

\* Construction: matrix.shape is read first, then the order is checked.
AssembleOutcome(m, order) ==
    IF m = None THEN "AttributeError"
    ELSE IF order \notin {0, 1, 2} THEN "ValueError"
    ELSE "built"

\* Faulty variant: x on the last knot is left to the loop, which takes
\* the segment left of it.
AsmSegment_LeftOfLastKnot(x, sp, num_segments) ==
    IF x <= sp[1] THEN 0
    ELSE IF x > sp[Len(sp)] THEN num_segments - 1
    ELSE LET hits == {i \in 0..(Len(sp) - 2) : sp[i + 1] <= x /\ x <= sp[i + 2]}
         IN IF hits = {} THEN num_segments - 1 ELSE Min(hits) + 1

\* f: "Segment-Index bestimmen"
AsmSegment(x, sp, num_segments) ==
    IF x <= sp[1] THEN 0
    ELSE IF x >= sp[Len(sp)] THEN num_segments - 1
    ELSE LET hits == {i \in 0..(Len(sp) - 2) : sp[i + 1] <= x /\ x <= sp[i + 2]}
         IN IF hits = {} THEN num_segments - 1 ELSE Min(hits) + 1

\* Faulty variant: the loop of order 1 runs over the constant term too and
\* the second-derivative term lacks its factor (power - 1).
AsmEval_WrongFactors(m, seg, x, order) ==
    LET num_rows == NumRows(m)
        degree == num_rows - 1
    IN CASE order = 0 ->
              SeqSum([jj \in 1..num_rows |->
                  LET j == jj - 1 IN At(m, j, seg) * Pow(x, degree - j)])
         [] order = 1 ->
              SeqSum([jj \in 1..num_rows |->
                  LET j == jj - 1
                      power == degree - j
                  IN At(m, j, seg) * (power + 1) * Pow(x, power)])
         [] OTHER ->
              SeqSum([jj \in 1..(num_rows - 2) |->
                  LET j == jj - 1
                      power == degree - j
                  IN At(m, j, seg) * power * Pow(x, power - 2)])

\* f: "Auswertung je nach Ableitungsgrad"
AsmEval(m, seg, x, order) ==
    LET num_rows == NumRows(m)
        degree == num_rows - 1
    IN CASE order = 0 ->
              SeqSum([jj \in 1..num_rows |->
                  LET j == jj - 1 IN At(m, j, seg) * Pow(x, degree - j)])
         [] order = 1 ->
              SeqSum([jj \in 1..(num_rows - 1) |->
                  LET j == jj - 1
                      power == degree - j
                  IN At(m, j, seg) * power * Pow(x, power - 1)])
         [] OTHER ->
              SeqSum([jj \in 1..(num_rows - 2) |->
                  LET j == jj - 1
                      power == degree - j
                  IN At(m, j, seg) * power * (power - 1) * Pow(x, power - 2)])

\* f: "Domain-Check"
DomainError(x, bnds) == ~(bnds[1] <= x /\ x <= bnds[2])

\* The evaluator f(x) as a whole: segment used and value returned.
f(m, sp, bnds, order, x) ==
    LET seg == AsmSegment(x, sp, NumCols(m))
    IN [seg |-> seg, result |-> AsmEval(m, seg, x, order)]

\* One evaluator is built per run and followed through one call.
assemble_splines(order) ==
    /\ pc = "returned"
    /\ asm = "none"
    /\ derivative' = order
    /\ asm' = AssembleOutcome(ret.matrix, order)
    /\ evalCalls' = 0
    /\ evalX' = 0
    /\ evalErr' = "none"
    /\ evalSeg' = 0
    /\ evalResult' = 0
    /\ UNCHANGED <<dashState, inputs, fitState, scaleState, wrapState>>

evaluator(x) ==
    /\ asm = "built"
    /\ evalCalls = 0
    /\ evalCalls' = 1
    /\ evalX' = x
    /\ IF DomainError(x, bounds)
       THEN /\ evalErr' = "ValueError:domain"
            /\ UNCHANGED <<evalSeg, evalResult>>
       ELSE /\ evalErr' = "none"
            /\ evalSeg' = f(ret.matrix, support_points, bounds, derivative, x).seg
            /\ evalResult' = f(ret.matrix, support_points, bounds, derivative, x).result
    /\ UNCHANGED <<dashState, inputs, fitState, asmState, scaleState, wrapState>>

\* ------------------------------------------------------ scale.py: numbers
\* The quotients of scale.py are computed exactly: a number is a fraction
\* <<numerator, denominator>> in lowest terms with a positive denominator.
Abs(a) == IF a < 0 THEN 0 - a ELSE a

RECURSIVE GCD(_, _)
GCD(a, b) == IF b = 0 THEN a ELSE GCD(b, a % b)

\* n / d for d # 0, reduced
Frac(n, d) ==
    LET s == IF d < 0 THEN 0 - 1 ELSE 1
        g == GCD(Abs(n), Abs(d))
    IN <<(s * n) \div g, (s * d) \div g>>

Num(n) == <<n, 1>>
RAdd(a, b) == Frac(a[1] * b[2] + b[1] * a[2], a[2] * b[2])
RSub(a, b) == Frac(a[1] * b[2] - b[1] * a[2], a[2] * b[2])
RMul(a, b) == Frac(a[1] * b[1], a[2] * b[2])
RLe(a, b) == a[1] * b[2] <= b[1] * a[2]

\* The outcome of a call: a value, or the exception that left it.
NoCall == [err |-> "nocall", val |-> Num(0)]
Raised(e) == [err |-> e, val |-> Num(0)]
Returned(v) == [err |-> "none", val |-> v]

\* Python's a / b
TrueDiv(a, b) ==
    IF b[1] = 0 THEN Raised("ZeroDivisionError")
    ELSE Returned(Frac(a[1] * b[2], a[2] * b[1]))

\* -------------------------------------------------------------- scale.py
\* scaled_min + (original_x - original_x_min) * (scaled_max - scaled_min)
\*            / (original_x_max - original_x_min)
scale_x_value(original_x, original_x_min, original_x_max, scaled_bounds) ==
    LET scaled_min == scaled_bounds[1]
        scaled_max == scaled_bounds[2]
        q == TrueDiv(RMul(RSub(original_x, Num(original_x_min)),
                          Num(scaled_max - scaled_min)),
                     Num(original_x_max - original_x_min))
    IN IF q.err # "none" THEN q
       ELSE Returned(RAdd(Num(scaled_min), q.val))

\* Faulty variant: the factor and the divisor are exchanged, so that the
\* function is no longer the inverse of scale_x_value.
unscale_x_value_Swapped(scaled_x, original_x_min, original_x_max, scaled_bounds) ==
    LET scaled_min == scaled_bounds[1]
        scaled_max == scaled_bounds[2]
        q == TrueDiv(RMul(RSub(scaled_x, Num(scaled_min)),
                          Num(scaled_max - scaled_min)),
                     Num(original_x_max - original_x_min))
    IN IF q.err # "none" THEN q
       ELSE Returned(RAdd(Num(original_x_min), q.val))

\* original_x_min + (scaled_x - scaled_min) * (original_x_max - original_x_min)
\*                / (scaled_max - scaled_min)
unscale_x_value(scaled_x, original_x_min, original_x_max, scaled_bounds) ==
    LET scaled_min == scaled_bounds[1]
        scaled_max == scaled_bounds[2]
        q == TrueDiv(RMul(RSub(scaled_x, Num(scaled_min)),
                          Num(original_x_max - original_x_min)),
                     Num(scaled_max - scaled_min))
    IN IF q.err # "none" THEN q
       ELSE Returned(RAdd(Num(original_x_min), q.val))

scale_x_value_call(x, xmin, xmax, sb) ==
    /\ scaled = NoCall
    /\ scaleArgs' = <<x, xmin, xmax, sb>>
    /\ scaled' = scale_x_value(Num(x), xmin, xmax, sb)
    /\ UNCHANGED <<dashState, inputs, fitState, asmState, evalState,
                   unscaleArgs, unscaled, wrapState>>

unscale_x_value_call(xs, xmin, xmax, sb) ==
    /\ unscaled = NoCall
    /\ unscaleArgs' = <<xs, xmin, xmax, sb>>
    /\ unscaled' = unscale_x_value(xs, xmin, xmax, sb)
    /\ UNCHANGED <<dashState, inputs, fitState, asmState, evalState,
                   scaleArgs, scaled, wrapState>>

\* The evaluator f of assemble_splines called with a fraction x, as
\* spline_original calls it.
RECURSIVE RSumFrom(_, _)
RSumFrom(s, k) == IF k > Len(s) THEN Num(0) ELSE RAdd(s[k], RSumFrom(s, k + 1))
RSum(s) == RSumFrom(s, 1)
RPow(x, n) == <<Pow(x[1], n), Pow(x[2], n)>>

\* f: "Domain-Check"
DomainErrorQ_Strict(x, bnds) == ~(RLe(Num(bnds[1]), x) /\ RLe(x, Num(bnds[2]))) \/ x = Num(bnds[1]) \/ x = Num(bnds[2])

DomainErrorQ(x, bnds) == ~(RLe(Num(bnds[1]), x) /\ RLe(x, Num(bnds[2])))

\* f: "Segment-Index bestimmen"
AsmSegmentQ(x, sp, num_segments) ==
    IF RLe(x, Num(sp[1])) THEN 0
    ELSE IF RLe(Num(sp[Len(sp)]), x) THEN num_segments - 1
    ELSE LET hits == {i \in 0..(Len(sp) - 2) :
                        RLe(Num(sp[i + 1]), x) /\ RLe(x, Num(sp[i + 2]))}
         IN IF hits = {} THEN num_segments - 1 ELSE Min(hits) + 1

\* f: "Auswertung je nach Ableitungsgrad"
AsmEvalQ(m, seg, x, order) ==
    LET num_rows == NumRows(m)
        degree == num_rows - 1
    IN CASE order = 0 ->
              RSum([jj \in 1..num_rows |->
                  LET j == jj - 1
                  IN RMul(Num(At(m, j, seg)), RPow(x, degree - j))])
         [] order = 1 ->
              RSum([jj \in 1..(num_rows - 1) |->
                  LET j == jj - 1
                      power == degree - j
                  IN RMul(Num(At(m, j, seg) * power), RPow(x, power - 1))])
         [] OTHER ->
              RSum([jj \in 1..(num_rows - 2) |->
                  LET j == jj - 1
                      power == degree - j
                  IN RMul(Num(At(m, j, seg) * power * (power - 1)),
                          RPow(x, power - 2))])

\* spline_scaled(x_s): the assembled evaluator, its ValueError included
spline_scaled(m, sp, bnds, order, x_s) ==
    IF DomainErrorQ(x_s, bnds) THEN Raised("ValueError:domain")
    ELSE Returned(AsmEvalQ(m, AsmSegmentQ(x_s, sp, NumCols(m)), x_s, order))

\* Faulty variant: x_orig is handed to spline_scaled as it is.
spline_original_NoScaling(m, sp, bnds, order, original_x_min, original_x_max, scaled_bounds, x) ==
    spline_scaled(m, sp, bnds, order, x)

\* unscale_splines.spline_original: x_s is computed in place, then
\* spline_scaled(x_s) is returned.
spline_original(m, sp, bnds, order, original_x_min, original_x_max, scaled_bounds, x) ==
    LET scaled_min == scaled_bounds[1]
        scaled_max == scaled_bounds[2]
        q == TrueDiv(RMul(RSub(x, Num(original_x_min)),
                          Num(scaled_max - scaled_min)),
                     Num(original_x_max - original_x_min))
    IN IF q.err # "none" THEN q
       ELSE LET x_s == RAdd(Num(scaled_min), q.val)
            IN spline_scaled(m, sp, bnds, order, x_s)

\* unscale_splines wraps the evaluator built by assemble_splines.
unscale_splines(original_x_min, original_x_max, scaled_bounds) ==
    /\ asm = "built"
    /\ wrapper = "none"
    /\ wrapper' = "built"
    /\ wrapArgs' = <<original_x_min, original_x_max, scaled_bounds>>
    /\ UNCHANGED <<dashState, inputs, fitState, asmState, evalState, scaleState,
                   x_orig, wrapOut>>

spline_original_call(x) ==
    /\ wrapper = "built"
    /\ wrapOut = NoCall
    /\ x_orig' = x
    /\ wrapOut' = spline_original(ret.matrix, support_points, bounds, derivative,
                                  wrapArgs[1], wrapArgs[2], wrapArgs[3], Num(x))
    /\ UNCHANGED <<dashState, inputs, fitState, asmState, evalState, scaleState,
                   wrapArgs, wrapper>>

\* ------------------------------------------------------------ input sets
SeqsUpTo(S, n) == UNION {[1..k -> S] : k \in 0..n}
StrictlyAscending(s) == \A k \in 1..(Len(s) - 1) : s[k] < s[k + 1]

Ys == {1}
PointLists == SeqsUpTo(Xs \X Ys, MaxPoints) \ {<<>>}
\* every strictly ascending list, and every list of at most two knots
KnotLists == {s \in SeqsUpTo(Xs, MaxKnots) : StrictlyAscending(s) \/ Len(s) <= 2}
\* the widest domain, a narrower one, a reversed and an empty one
BoundsSet == {<<0 - MaxX, MaxX>>, <<1 - MaxX, MaxX - 1>>,
              <<MaxX, MaxX - 1>>, <<MaxX, MaxX>>}
Steps == {0 - 1, 0, 1, MaxStep}
Orders == 0..MaxOrder

CoreRest ==
    /\ pc = "start"
    /\ error = "none"
    /\ matrixVar = None
    /\ constraints = <<>>
    /\ differences = <<>>
    /\ solveCalls = 0
    /\ problem = NoProblem
    /\ ret = NoProblem
    /\ derivative = 0
    /\ asm = "none"
    /\ evalCalls = 0
    /\ evalX = 0
    /\ evalErr = "none"
    /\ evalSeg = 0
    /\ evalResult = 0
    /\ scaleArgs = <<0, 0, 0, <<0, 0>> >>
    /\ scaled = NoCall
    /\ unscaleArgs = <<Num(0), 0, 0, <<0, 0>> >>
    /\ unscaled = NoCall
    /\ wrapArgs = <<0, 0, <<0, 0>> >>
    /\ wrapper = "none"
    /\ x_orig = 0
    /\ wrapOut = NoCall

\* The globals and locals of run.py before its threads are started.
DashRest ==
    /\ g_points = <<>>
    /\ stack = <<>>
    /\ g_support_points = <<>>
    /\ current_underlying_price = None
    /\ tpc = "seed"
    /\ option = 0
    /\ ticker = [raised |-> TRUE, mark_price |-> <<>>,
                 underlying_price |-> <<>>]
    /\ caught = FALSE
    /\ polled = <<>>
    /\ iterStart = <<None, None>>
    /\ input_text = <<>>
    /\ cpc = "idle"
    /\ cb_konvex_until = None
    /\ copied_points = <<>>
    /\ copied_support_points = <<>>
    /\ fitArgs = None
    /\ cbMatrix = None
    /\ cbRange = None
    /\ cbOut = "none"

DashIdle == options = <<>> /\ DashRest

InitRest == CoreRest /\ DashIdle

\* Calls with one observation, valid or not, followed through the
\* assembler and one evaluator call; the solver searches the smallest box.
Init ==
    /\ points \in {<< <<x, 1>> >> : x \in Xs}
    /\ support_points \in KnotLists
    /\ konvex_until \in Range(support_points) \cup {0}
    /\ bounds \in BoundsSet
    /\ degree_of_spline \in (MinDegree - 1)..MinDegree
    /\ sampling_interval \in {0, 1}
    /\ box = 0
    /\ InitRest

\* Any call of fit_parameter, valid or not; the solver searches the
\* smallest box.
InitFit ==
    /\ points \in PointLists
    /\ support_points \in KnotLists
    /\ konvex_until \in Range(support_points) \cup {0}
    /\ bounds \in BoundsSet
    /\ degree_of_spline \in (MinDegree - 1)..MinDegree
    /\ sampling_interval \in Steps
    /\ box = 0
    /\ InitRest

\* Calls on the widest domain with one observation and one or two knots
\* inside it; the solver searches the box -MaxCoef..MaxCoef.
InitShape ==
    /\ points = << <<0, 1>> >>
    /\ support_points \in {s \in SeqsUpTo((1 - MaxX)..(MaxX - 1), 2) :
                                StrictlyAscending(s) /\ s # <<>>}
    /\ konvex_until \in Xs
    /\ bounds = <<0 - MaxX, MaxX>>
    /\ degree_of_spline \in MinDegree..MaxDegree
    /\ sampling_interval \in Steps \ {0 - 1}
    /\ box = MaxCoef
    /\ InitRest

\* fit_parameter alone
NextFit ==
    \/ fit_parameter_invalid
    \/ fit_parameter_zero_step
    \/ fit_parameter_solve

\* fit_parameter, then assemble_splines, then the evaluator
Next ==
    \/ fit_parameter_invalid
    \/ fit_parameter_zero_step
    \/ fit_parameter_solve
    \/ \E order \in Orders : assemble_splines(order)
    \/ \E x \in Xs : evaluator(x)

Spec == Init /\ [][Next]_vars
SpecFit == InitFit /\ [][NextFit]_vars
SpecShape == InitShape /\ [][Next]_vars

\* Original domains and target intervals: ascending, degenerate, reversed.
Domains == Xs \X Xs
TargetBounds == ((0 - 1)..1) \X ((0 - 1)..1)
\* the domains handed to unscale_splines: those starting at or below 0
WrapDomains == {dom \in Domains : dom[1] <= 0}

InitScale ==
    /\ points = <<>>
    /\ support_points = <<>>
    /\ konvex_until = 0
    /\ bounds = <<0, 0>>
    /\ degree_of_spline = MinDegree
    /\ sampling_interval = 1
    /\ box = 0
    /\ InitRest

\* One call of scale_x_value or of unscale_x_value, or a scaled value
\* handed back to unscale_x_value with the same domain and target interval.
NextScale ==
    \/ \E x \in Xs, dom \in Domains, sb \in TargetBounds :
          /\ unscaled = NoCall
          /\ scale_x_value_call(x, dom[1], dom[2], sb)
    \/ \E x \in Xs, dom \in Domains, sb \in TargetBounds :
          /\ scaled = NoCall
          /\ unscale_x_value_call(Num(x), dom[1], dom[2], sb)
    \/ /\ scaled.err = "none"
       /\ unscale_x_value_call(scaled.val, scaleArgs[2], scaleArgs[3], scaleArgs[4])

SpecScale == InitScale /\ [][NextScale]_vars

\* A fit on the working interval [-1, 1] with one knot, the solver
\* searching the box -1..1; its evaluator is wrapped by unscale_splines.
InitWrap ==
    /\ points = << <<0, 1>> >>
    /\ support_points = <<0>>
    /\ konvex_until = 0
    /\ bounds = <<0 - 1, 1>>
    /\ degree_of_spline \in (MinDegree - 1)..MinDegree
    /\ sampling_interval \in {0, 1}
    /\ box = 1
    /\ InitRest

NextWrap ==
    \/ fit_parameter_invalid
    \/ fit_parameter_zero_step
    \/ fit_parameter_solve
    \/ \E order \in Orders : assemble_splines(order)
    \/ \E dom \in WrapDomains, sb \in TargetBounds :
          unscale_splines(dom[1], dom[2], sb)
    \/ \E x \in Xs : spline_original_call(x)

SpecWrap == InitWrap /\ [][NextWrap]_vars

\* Two observations, repeated ones included, over the widest domain with
\* one or two knots; the solver searches the box -1..1.
InitObjective ==
    /\ points \in [1..2 -> ((0 - 1)..1) \X (0..1)]
    /\ support_points \in {<<0>>, <<0 - 1, 1>>}
    /\ konvex_until \in Range(support_points)
    /\ bounds = <<0 - MaxX, MaxX>>
    /\ degree_of_spline \in (MinDegree - 1)..MinDegree
    /\ sampling_interval \in {0, 1}
    /\ box = 1
    /\ InitRest

SpecObjective == InitObjective /\ [][NextFit]_vars

\* One observation and one knot over the widest domain, every degree; the
\* solver searches the box -1..1 and the evaluator is called once.
InitEval ==
    /\ points = << <<0, 1>> >>
    /\ support_points = <<0>>
    /\ konvex_until = 0
    /\ bounds = <<0 - MaxX, MaxX>>
    /\ degree_of_spline \in (MinDegree - 1)..MaxDegree
    /\ sampling_interval \in {0, 1, MaxStep}
    /\ box = 1
    /\ InitRest

SpecEval == InitEval /\ [][Next]_vars

\* The fit part of the module at rest.
CoreIdle ==
    /\ points = <<>>
    /\ support_points = <<>>
    /\ konvex_until = 0
    /\ bounds = <<0, 0>>
    /\ degree_of_spline = 0
    /\ sampling_interval = 0
    /\ box = 0
    /\ CoreRest

\* ------------------------------------------- run.py: fetch_points_loop
MaxOptions == 3
MaxPolls == 3
MaxPrice == 2

\* MIN_MARK_PRICE = 0.0005 and MAX_MARK_PRICE = 0.1, in units of 0.0005
MIN_MARK_PRICE == 1
MAX_MARK_PRICE == 200

\* An option is known by its strike; one instrument per strike.
Strikes == 1..MaxOptions
Prices == 1..MaxPrice

\* A key of the ticker that is absent, or present with value v
Missing == <<>>
Present(v) == <<v>>

\* What deribit._get_ticker can do: raise, or return a dictionary in which
\* either key may be absent.
TickerRaised ==
    [raised |-> TRUE, mark_price |-> Missing, underlying_price |-> Missing]

Tickers(marks) ==
    {TickerRaised}
    \cup {[raised |-> FALSE, mark_price |-> m, underlying_price |-> u] :
             m \in {Missing} \cup {Present(k) : k \in marks},
             u \in {Missing} \cup {Present(k) : k \in Prices}}

\* stack.extend(options)
fetch_points_loop_seed ==
    /\ tpc = "seed"
    /\ stack' = stack \o options
    /\ tpc' = "head"
    /\ UNCHANGED <<coreState, cbState, input_text, g_points, g_support_points,
                   current_underlying_price, options, option, ticker, caught,
                   polled, iterStart>>

\* while True: if stack: option = stack.popleft() ... else: sys.exit(1)
fetch_points_loop_pop ==
    /\ tpc = "head"
    /\ Len(polled) < MaxPolls
    /\ IF stack # <<>>
       THEN /\ option' = Head(stack)
            /\ stack' = Tail(stack)
            /\ polled' = Append(polled, Head(stack))
            /\ iterStart' = <<g_points, current_underlying_price>>
            /\ caught' = FALSE
            /\ tpc' = "try"
       ELSE /\ tpc' = "exit"
            /\ UNCHANGED <<option, stack, polled, iterStart, caught>>
    /\ UNCHANGED <<coreState, cbState, input_text, g_points, g_support_points,
                   current_underlying_price, options, ticker>>

\* Faulty variant: the price is stored before the mark price is read.
fetch_points_loop_try_PriceFirst(t) ==
    /\ tpc = "try"
    /\ ticker' = t
    /\ IF t.raised \/ t.underlying_price = Missing
       THEN /\ caught' = TRUE
            /\ tpc' = "push"
            /\ UNCHANGED <<g_points, current_underlying_price>>
       ELSE IF t.mark_price = Missing
       THEN /\ caught' = TRUE
            /\ tpc' = "push"
            /\ current_underlying_price' = t.underlying_price
            /\ UNCHANGED g_points
       ELSE /\ g_points' = Append(g_points,
                                  <<option - t.underlying_price[1],
                                    t.mark_price[1]>>)
            /\ tpc' = "set_price"
            /\ UNCHANGED <<caught, current_underlying_price>>
    /\ UNCHANGED <<coreState, cbState, input_text, stack, g_support_points, options,
                   option, polled, iterStart>>

\* try: ticker = _get_ticker(...); mark = ticker["mark_price"];
\* points.append((option.strike - ticker["underlying_price"], mark))
\* except Exception: print(...)
fetch_points_loop_try(t) ==
    /\ tpc = "try"
    /\ ticker' = t
    /\ IF t.raised \/ t.mark_price = Missing \/ t.underlying_price = Missing
       THEN /\ caught' = TRUE
            /\ tpc' = "push"
            /\ UNCHANGED g_points
       ELSE /\ g_points' = Append(g_points,
                                  <<option - t.underlying_price[1],
                                    t.mark_price[1]>>)
            /\ tpc' = "set_price"
            /\ UNCHANGED caught
    /\ UNCHANGED <<coreState, cbState, input_text, stack, g_support_points,
                   current_underlying_price, options, option, polled,
                   iterStart>>

\* current_underlying_price = ticker["underlying_price"]
fetch_points_loop_set_price ==
    /\ tpc = "set_price"
    /\ current_underlying_price' = ticker.underlying_price
    /\ tpc' = "push"
    /\ UNCHANGED <<coreState, cbState, input_text, g_points, stack, g_support_points,
                   options, option, ticker, caught, polled, iterStart>>

\* Faulty variant: the option is put back at the front.
fetch_points_loop_push_Front ==
    /\ tpc = "push"
    /\ stack' = <<option>> \o stack
    /\ tpc' = "head"
    /\ UNCHANGED <<coreState, cbState, input_text, g_points, g_support_points,
                   current_underlying_price, options, option, ticker, caught,
                   polled, iterStart>>

\* stack.append(option); time.sleep(...)
fetch_points_loop_push ==
    /\ tpc = "push"
    /\ stack' = Append(stack, option)
    /\ tpc' = "head"
    /\ UNCHANGED <<coreState, cbState, input_text, g_points, g_support_points,
                   current_underlying_price, options, option, ticker, caught,
                   polled, iterStart>>

\* ------------------------------------------ run.py: update_support_points
\* The text of the input field is the list of its comma-separated fields,
\* <<>> when there is no text; a field is <<n>> when int() reads n from it
\* and <<>> when int() raises ValueError.
IsIntField(fld) == fld # <<>>

\* [int(x.strip()) for x in input_text.split(',')]
ParseInts(text) == [k \in DOMAIN text |-> text[k][1]]

\* Faulty variant: equal neighbours pass the order check (> for >=).
CheckedSupportPoints_NotStrict(text) ==
    IF text = <<>> THEN None
    ELSE IF \E k \in DOMAIN text : ~IsIntField(text[k]) THEN None
    ELSE LET parsed == ParseInts(text)
         IN IF 0 \notin Range(parsed) THEN None
            ELSE IF \E i \in 1..(Len(parsed) - 1) : parsed[i] > parsed[i + 1]
                 THEN None
            ELSE parsed

\* The four checks in source order: the parsed list, or None when a check
\* returns early.
CheckedSupportPoints(text) ==
    IF text = <<>> THEN None
    ELSE IF \E k \in DOMAIN text : ~IsIntField(text[k]) THEN None
    ELSE LET parsed == ParseInts(text)
         IN IF 0 \notin Range(parsed) THEN None
            ELSE IF \E i \in 1..(Len(parsed) - 1) : parsed[i] >= parsed[i + 1]
                 THEN None
            ELSE parsed

update_support_points(text) ==
    /\ input_text' = text
    /\ g_support_points' =
          IF CheckedSupportPoints(text) = None THEN g_support_points
          ELSE CheckedSupportPoints(text)
    /\ UNCHANGED <<coreState, pollState, cbState, g_points, stack,
                   current_underlying_price>>

\* --------------------------------------- run.py: update_function_fit_plot
ScaledBounds == <<0 - 1, 1>>

\* p >= MIN_MARK_PRICE and p <= MAX_MARK_PRICE
Filter(pts) ==
    SelectSeq(pts, LAMBDA pt : pt[2] >= MIN_MARK_PRICE /\ pt[2] <= MAX_MARK_PRICE)

StrikesOf(pts) == {pts[k][1] : k \in DOMAIN pts}

\* Faulty variant: the pivot is the image of 1.
scaled_konvex_until_OfOne(min_strike, max_strike) ==
    scale_x_value(Num(1), min_strike, max_strike, ScaledBounds)

\* scale_x_value(original_x=0, min_strike, max_strike, (-1.0, 1.0))
scaled_konvex_until(min_strike, max_strike) ==
    scale_x_value(Num(0), min_strike, max_strike, ScaledBounds)

\* The validations of fit_parameter on scaled (fractional) arguments.
ValidationErrorQ(pts, sp, ku, bnds, deg) ==
    IF bnds[1] >= bnds[2] THEN "ValueError:bounds"
    ELSE IF ~(\A k \in 1..(Len(sp) - 1) : RLe(sp[k], sp[k + 1]))
         THEN "ValueError:unsorted"
    ELSE IF ~(\A k \in DOMAIN sp :
                 RLe(Num(bnds[1]), sp[k]) /\ RLe(sp[k], Num(bnds[2])))
         THEN "ValueError:knot_outside"
    ELSE IF Cardinality(Range(sp)) # Len(sp) THEN "ValueError:duplicate"
    ELSE IF \E k \in DOMAIN pts :
               ~(RLe(Num(bnds[1]), pts[k][1]) /\ RLe(pts[k][1], Num(bnds[2])))
         THEN "ValueError:point_outside"
    ELSE IF ku \notin Range(sp) THEN "ValueError:pivot"
    ELSE IF deg < MinDegree THEN "ValueError:degree"
    ELSE "none"

\* Lines 590-643 on the local lists: filter, min and max, scaling, and the
\* call of fit_parameter up to its validations.  exc is the exception that
\* ends the callback, args what fit_parameter was called with.
FitCall(cp, csp, degree) ==
    LET filtered_points == Filter(cp)
    IN IF filtered_points = <<>>
       THEN [exc |-> "ValueError:min_empty", args |-> None]
       ELSE LET min_strike == Min(StrikesOf(filtered_points))
                max_strike == Max(StrikesOf(filtered_points))
                sc(x) == scale_x_value(Num(x), min_strike, max_strike,
                                       ScaledBounds)
            IN IF sc(filtered_points[1][1]).err # "none"
               THEN [exc |-> sc(filtered_points[1][1]).err, args |-> None]
               ELSE LET args ==
                          [points |-> [k \in DOMAIN filtered_points |->
                                          <<sc(filtered_points[k][1]).val,
                                            filtered_points[k][2]>>],
                           support_points |->
                               [k \in DOMAIN csp |-> sc(csp[k]).val],
                           konvex_until |->
                               scaled_konvex_until(min_strike, max_strike).val,
                           bounds |-> ScaledBounds,
                           degree_of_spline |-> degree]
                    IN [exc |-> ValidationErrorQ(args.points,
                                                 args.support_points,
                                                 args.konvex_until,
                                                 args.bounds,
                                                 args.degree_of_spline),
                        args |-> args]

\* The matrix of a solve that left one; its entries play no part here.
SolvedMatrix == <<"matrix">>

\* Lines 833-861: the text of the probability output.
ProbText(a, b, original_x_min, original_x_max) ==
    LET a1 == IF a = <<0 - 1>> THEN <<original_x_min>> ELSE a
        b1 == IF b = <<0>> THEN <<original_x_max>> ELSE b
    IN IF a1 = None \/ b1 = None THEN "returned"
       ELSE IF ~(original_x_min <= a1[1] /\ a1[1] < b1[1]
                 /\ b1[1] <= original_x_max)
            THEN "returned:range_error"
       ELSE "returned:prob"

\* konvex_until = current_underlying_price
update_function_fit_plot_start ==
    /\ cpc \in {"idle", "done"}
    /\ cb_konvex_until' = current_underlying_price
    /\ cpc' = "check"
    /\ copied_points' = <<>>
    /\ copied_support_points' = <<>>
    /\ fitArgs' = None
    /\ cbMatrix' = None
    /\ cbRange' = None
    /\ cbOut' = "none"
    /\ UNCHANGED <<coreState, globals, pollState, input_text>>

\* if not points or not support_points: return five empty outputs
update_function_fit_plot_check ==
    /\ cpc = "check"
    /\ IF g_points = <<>> \/ g_support_points = <<>>
       THEN cpc' = "done" /\ cbOut' = "empty"
       ELSE cpc' = "copy_points" /\ UNCHANGED cbOut
    /\ UNCHANGED <<coreState, globals, pollState, input_text,
                   cb_konvex_until, copied_points, copied_support_points,
                   fitArgs, cbMatrix, cbRange>>

\* copied_points = points.copy()
update_function_fit_plot_copy_points ==
    /\ cpc = "copy_points"
    /\ copied_points' = g_points
    /\ cpc' = "copy_support"
    /\ UNCHANGED <<coreState, globals, pollState, input_text,
                   cb_konvex_until, copied_support_points, fitArgs, cbMatrix,
                   cbRange, cbOut>>

\* copied_support_points = support_points.copy()
update_function_fit_plot_copy_support ==
    /\ cpc = "copy_support"
    /\ copied_support_points' = g_support_points
    /\ cpc' = "fit"
    /\ UNCHANGED <<coreState, globals, pollState, input_text,
                   cb_konvex_until, copied_points, fitArgs, cbMatrix, cbRange,
                   cbOut>>

\* Faulty variant: the run works on the global lists, not on its copies.
update_function_fit_plot_fit_OnGlobals(degree, solved) ==
    /\ cpc = "fit"
    /\ LET c == FitCall(g_points, g_support_points, degree)
       IN /\ fitArgs' = c.args
          /\ IF c.exc # "none"
             THEN cpc' = "done" /\ cbOut' = c.exc /\ UNCHANGED cbMatrix
             ELSE /\ cpc' = "finish"
                  /\ cbMatrix' = IF solved THEN SolvedMatrix ELSE None
                  /\ UNCHANGED cbOut
    /\ UNCHANGED <<coreState, globals, pollState, input_text,
                   cb_konvex_until, copied_points, copied_support_points,
                   cbRange>>

\* Lines 590-643: filter, scale and fit.  An exception leaves the callback;
\* otherwise the solver has left a matrix (solved) or None.
update_function_fit_plot_fit(degree, solved) ==
    /\ cpc = "fit"
    /\ LET c == FitCall(copied_points, copied_support_points, degree)
       IN /\ fitArgs' = c.args
          /\ IF c.exc # "none"
             THEN cpc' = "done" /\ cbOut' = c.exc /\ UNCHANGED cbMatrix
             ELSE /\ cpc' = "finish"
                  /\ cbMatrix' = IF solved THEN SolvedMatrix ELSE None
                  /\ UNCHANGED cbOut
    /\ UNCHANGED <<coreState, globals, pollState, input_text,
                   cb_konvex_until, copied_points, copied_support_points,
                   cbRange>>

\* Lines 648-861: assemble_splines reads matrix.shape, the original range
\* adds konvex_until to the filtered strikes, then plots and probability.
update_function_fit_plot_finish(a, b) ==
    /\ cpc = "finish"
    /\ cpc' = "done"
    /\ IF AssembleOutcome(cbMatrix, 0) # "built"
       THEN cbOut' = "AttributeError:matrix" /\ UNCHANGED cbRange
       ELSE IF cb_konvex_until = None
       THEN cbOut' = "TypeError:konvex_until" /\ UNCHANGED cbRange
       ELSE LET strikes == StrikesOf(Filter(copied_points))
                original_x_min == Min(strikes) + cb_konvex_until[1]
                original_x_max == Max(strikes) + cb_konvex_until[1]
            IN /\ cbRange' = <<original_x_min, original_x_max>>
               /\ cbOut' = ProbText(a, b, original_x_min, original_x_max)
    /\ UNCHANGED <<coreState, globals, pollState, input_text,
                   cb_konvex_until, copied_points, copied_support_points,
                   fitArgs, cbMatrix>>

\* ------------------------------------------------- run.py: the dashboard
MaxFields == 3

\* The fields a text can be made of
Fields == {<<>>} \cup {<<n>> : n \in (0 - 1)..1}
Texts == SeqsUpTo(Fields, MaxFields)

\* spline-degree: the three radio items
SplineDegrees == {3, 4, 5}
\* input-a, input-b: no number, the shorthand (-1 for a, 0 for b), a number
InputsA == {None, <<0 - 1>>, <<1>>}
InputsB == {None, <<0>>, <<MaxOptions>>}

\* update_support_points alone, on every text.
NextKnots == \E text \in Texts : update_support_points(text)

InitKnots == CoreIdle /\ DashIdle

SpecKnots == InitKnots /\ [][NextKnots]_vars

\* The polling thread, the knot input and the fit callback interleaved.
InitDash ==
    /\ CoreIdle
    /\ DashRest
    /\ options = [i \in 1..MaxOptions |-> i]

DashMarks == {MIN_MARK_PRICE, MAX_MARK_PRICE + 1}
\* a failure, or a full ticker at one price of the underlying
DashTickers ==
    {t \in Tickers(DashMarks) :
        \/ t.raised
        \/ t.mark_price # Missing /\ t.underlying_price = Present(MaxPrice)}
DashTexts ==
    {<< <<0>> >>, << <<1>> >>, << <<0 - 1>>, <<0>> >>,
     << <<0 - 1>>, <<0>>, <<1>> >>}

NextDash ==
    \/ fetch_points_loop_seed
    \/ fetch_points_loop_pop
    \/ \E t \in DashTickers : fetch_points_loop_try(t)
    \/ fetch_points_loop_set_price
    \/ fetch_points_loop_push
    \/ \E text \in DashTexts : update_support_points(text)
    \/ update_function_fit_plot_start
    \/ update_function_fit_plot_check
    \/ update_function_fit_plot_copy_points
    \/ update_function_fit_plot_copy_support
    \/ \E degree \in SplineDegrees, solved \in BOOLEAN :
          update_function_fit_plot_fit(degree, solved)
    \/ \E a \in InputsA, b \in InputsB : update_function_fit_plot_finish(a, b)

SpecDash == InitDash /\ [][NextDash]_vars

\* The option lists deribit.fetch_calls / fetch_puts can return.
OptionLists ==
    {o \in SeqsUpTo(Strikes, MaxOptions) : Cardinality(Range(o)) = Len(o)}

\* The polling thread alone, on any option list, the empty one included.
InitPoll ==
    /\ CoreIdle
    /\ DashRest
    /\ options \in OptionLists

PollMarks == {MIN_MARK_PRICE}

NextPoll ==
    \/ fetch_points_loop_seed
    \/ fetch_points_loop_pop
    \/ \E t \in Tickers(PollMarks) : fetch_points_loop_try(t)
    \/ fetch_points_loop_set_price
    \/ fetch_points_loop_push

SpecPoll == InitPoll /\ [][NextPoll]_vars

\* ================================================================ claims
M == Len(support_points)

ValidationErrors ==
    {"ValueError:bounds", "ValueError:unsorted", "ValueError:knot_outside",
     "ValueError:duplicate", "ValueError:point_outside", "ValueError:pivot",
     "ValueError:degree"}

\* The input conditions as the claims list them.
BoundsOrdered == bounds[1] < bounds[2]
KnotsAscending ==
    \A a, b \in DOMAIN support_points : a < b => support_points[a] <= support_points[b]
KnotsUnique ==
    \A a, b \in DOMAIN support_points : a # b => support_points[a] # support_points[b]
KnotsWithinBounds ==
    \A n \in DOMAIN support_points :
        bounds[1] <= support_points[n] /\ support_points[n] <= bounds[2]
PointsWithinBounds ==
    \A k \in DOMAIN points : bounds[1] <= points[k][1] /\ points[k][1] <= bounds[2]
PivotIsKnot == \E n \in DOMAIN support_points : support_points[n] = konvex_until
DegreeOK == degree_of_spline >= 3
InputValid ==
    /\ BoundsOrdered /\ KnotsAscending /\ KnotsUnique /\ KnotsWithinBounds
    /\ PointsWithinBounds /\ PivotIsKnot /\ DegreeOK

\* C1: once fit_parameter has acted, an input violating any of the seven
\* conditions has raised a validation error with no optimisation variable
\* created, no constraint built and no solve; an input satisfying all of them
\* has passed validation (the variable exists, no validation error).
C1_Validation ==
    pc # "start" =>
        /\ ~InputValid =>
              /\ pc = "raised"
              /\ error \in ValidationErrors
              /\ matrixVar = None
              /\ constraints = <<>>
              /\ solveCalls = 0
        /\ InputValid =>
              /\ error \notin ValidationErrors
              /\ matrixVar = <<degree_of_spline + 1, M + 1>>

C1_Witness ==
    /\ pc = "raised"
    /\ error = "ValueError:duplicate"
    /\ matrixVar = None

\* A sample of the solver: an x at which fit_parameter appended a
\* "second derivative >= 0" constraint.
IsSolverSample(x) ==
    \E k \in DOMAIN constraints :
        constraints[k].op = "ge" /\ constraints[k].der = 2 /\ constraints[k].x = x

EvaluatedOrder2 ==
    /\ pc = "returned"
    /\ ret.status = "optimal"
    /\ asm = "built"
    /\ derivative = 2
    /\ evalCalls > 0
    /\ evalErr = "none"

C3_Locator ==
    /\ error # "TypeError"
    /\ pc = "returned" =>
          \A k \in DOMAIN differences :
              LET x == differences[k].x
                  i == differences[k].i
              IN /\ i \in 0..M
                 /\ x <= support_points[1] => i = 0
                 /\ (x > support_points[1] /\ x >= support_points[M]) => i = M
                 /\ (x > support_points[1] /\ x < support_points[M]) =>
                        /\ i \in 1..(M - 1)
                        /\ support_points[i] <= x
                        /\ x <= support_points[i + 1]
                 /\ (IF i = 0 THEN bounds[1] ELSE support_points[i]) <= x
                 /\ x <= (IF i = M THEN bounds[2] ELSE support_points[i + 1])

C3_Witness ==
    /\ pc = "returned"
    /\ M = 3
    /\ differences[1].x > support_points[2]
    /\ differences[1].x < support_points[3]
    /\ differences[1].i = 2

\* C4 (as stated): an observation whose x equals knot k_i is assigned to the
\* left segment i, for every knot, the first and the last included.
C4_LeftAtEveryKnot ==
    pc = "returned" =>
        \A k \in DOMAIN differences : \A n \in DOMAIN support_points :
            differences[k].x = support_points[n] => differences[k].i = n - 1

\* C4 (amended): an observation whose x equals knot k_i is assigned to the
\* left segment i, except at the last knot of a list of two or more knots,
\* where it is assigned to the right segment M.
C4_LeftExceptLastKnot ==
    pc = "returned" =>
        \A k \in DOMAIN differences : \A n \in DOMAIN support_points :
            differences[k].x = support_points[n] =>
                differences[k].i = (IF n = M /\ M >= 2 THEN M ELSE n - 1)

C4_Witness ==
    /\ pc = "returned"
    /\ M = 3
    /\ differences[1].x = support_points[2]
    /\ differences[1].i = 1

\* C5: for every matrix satisfying the equality constraints and every knot,
\* the assembler's order-0, order-1 and order-2 formulas give the same number
\* from the column left of the knot and from the column right of it.
C5_Continuity ==
    (pc = "returned" /\ ret.status = "optimal") =>
        \A n \in DOMAIN support_points : \A order \in 0..2 :
            AsmEval(ret.matrix, n - 1, support_points[n], order)
                = AsmEval(ret.matrix, n, support_points[n], order)

C5_Witness ==
    /\ pc = "returned"
    /\ ret.status = "optimal"
    /\ M = 2
    /\ ret.matrix[1] # ret.matrix[2]
    /\ ret.matrix[2] # ret.matrix[3]
    /\ AsmEval(ret.matrix, 1, support_points[1], 1) # 0

\* C6: a call that returns has invoked the solver exactly once and returns
\* the solver's status, value and matrix unchanged; with a non-optimal
\* status the matrix is None and nothing was raised.  Before the return the
\* solver has not been invoked.
C6_SolveOnce ==
    /\ pc = "returned" =>
          /\ solveCalls = 1
          /\ error = "none"
          /\ ret.status = problem.status
          /\ ret.value = problem.value
          /\ ret.matrix = problem.matrix
          /\ ret.status \in NonOptimal => ret.matrix = None
    /\ pc # "returned" => solveCalls = 0

C6_Witness ==
    /\ pc = "returned"
    /\ ret.status = "infeasible"
    /\ ret.matrix = None
    /\ solveCalls = 1

\* C7: a call with sampling step <= 0 raises a validation error before any
\* constraint is built and before the solver is invoked.
C7_StepValidated ==
    (sampling_interval <= 0 /\ pc # "start") =>
        /\ pc = "raised"
        /\ error \in ValidationErrors
        /\ constraints = <<>>
        /\ solveCalls = 0

\* C8: a knot equal to bounds[0] or bounds[1] is rejected with a validation
\* error, so every segment of an accepted call has non-zero length.
C8_KnotsStrictlyInside ==
    /\ ((\E n \in DOMAIN support_points :
            support_points[n] = bounds[1] \/ support_points[n] = bounds[2])
        /\ pc # "start") =>
            (pc = "raised" /\ error \in ValidationErrors)
    /\ pc = "returned" =>
          \A i \in 0..M : SegStart(support_points, bounds, i)
                            < SegEnd(support_points, bounds, i)

\* C9: an evaluator call fails with a domain error exactly when x is below
\* bounds[0] or above bounds[1]; otherwise it returns a value, from segment
\* 0 at bounds[0] and from the last segment at bounds[1].
C9_Evaluator ==
    evalCalls > 0 =>
        /\ evalErr = "ValueError:domain" <=> (evalX < bounds[1] \/ evalX > bounds[2])
        /\ evalErr \in {"none", "ValueError:domain"}
        /\ (evalErr = "none" /\ evalX = bounds[1]) => evalSeg = 0
        /\ (evalErr = "none" /\ evalX = bounds[2]) => evalSeg = NumCols(ret.matrix) - 1

\* C10: a derivative order outside {0, 1, 2} fails at construction, so no
\* evaluator exists and none is ever called with such an order; with order
\* 0, 1 or 2 and a matrix, construction succeeds.
C10_OrderAtConstruction ==
    /\ asm # "none" =>
          /\ derivative \notin {0, 1, 2} => asm \in {"ValueError", "AttributeError"}
          /\ (derivative \in {0, 1, 2} /\ ret.matrix # None) => asm = "built"
    /\ evalCalls > 0 => (asm = "built" /\ derivative \in {0, 1, 2})

C10_Witness ==
    /\ asm = "ValueError"
    /\ derivative = 3
    /\ ret.matrix # None
    /\ evalCalls = 0

\* C11: whenever the original domain is degenerate (original_x_max =
\* original_x_min), scale_x_value and unscale_x_value each fail instead of
\* returning a value, for every x and every target interval.
C11_DegenerateDomainFails ==
    /\ (scaled # NoCall /\ scaleArgs[2] = scaleArgs[3]) => scaled.err # "none"
    /\ (unscaled # NoCall /\ unscaleArgs[2] = unscaleArgs[3]) => unscaled.err # "none"

\* A scaled value handed back with the domain and target it was scaled with.
IsRoundTrip ==
    /\ scaled.err = "none"
    /\ unscaled # NoCall
    /\ unscaleArgs = <<scaled.val, scaleArgs[2], scaleArgs[3], scaleArgs[4]>>

XInDomain ==
    /\ scaleArgs[2] < scaleArgs[3]
    /\ scaleArgs[2] <= scaleArgs[1]
    /\ scaleArgs[1] <= scaleArgs[3]

\* C12 as stated: for x in [domain_min, domain_max], domain_min < domain_max
\* and ANY target interval, scale returns a value and unscale of it
\* returns x.
C12_RoundTripAnyTarget ==
    /\ (scaled # NoCall /\ XInDomain) => scaled.err = "none"
    /\ (IsRoundTrip /\ XInDomain) => unscaled = Returned(Num(scaleArgs[1]))

\* C12 as amended: the same for every target interval whose two ends differ.
C12_RoundTrip ==
    /\ (scaled # NoCall /\ XInDomain) => scaled.err = "none"
    /\ (IsRoundTrip /\ XInDomain /\ scaleArgs[4][1] # scaleArgs[4][2]) =>
           unscaled = Returned(Num(scaleArgs[1]))

\* a round trip through a scaled value that is not a whole number
C12_Witness ==
    /\ IsRoundTrip
    /\ XInDomain
    /\ scaled.val[2] > 1
    /\ unscaled = Returned(Num(scaleArgs[1]))

\* C13: spline_original(x) is spline_scaled(scale_x_value(x, ...)): the same
\* value, or the same failure, and nothing else is done to argument or
\* result.
C13_Wrapper ==
    wrapOut # NoCall =>
        LET s == scale_x_value(Num(x_orig), wrapArgs[1], wrapArgs[2], wrapArgs[3])
        IN wrapOut = IF s.err # "none" THEN s
                     ELSE spline_scaled(ret.matrix, support_points, bounds,
                                        derivative, s.val)

\* a call in which scaling moves the argument and the spline is not zero there
C13_Witness ==
    /\ wrapOut.err = "none"
    /\ wrapOut.val # Num(0)
    /\ wrapOut.val[2] > 1
    /\ scale_x_value(Num(x_orig), wrapArgs[1], wrapArgs[2], wrapArgs[3]).val
           # Num(x_orig)

\* a call in which the failure of spline_scaled comes out of the wrapper
C13_FailurePropagated ==
    /\ wrapOut.err = "ValueError:domain"
    /\ ~DomainErrorQ(Num(x_orig), bounds)

\* C14: the segment the evaluator uses at x is the segment the fitter
\* assigned to an observation located at x, for x on a knot too.
C14_SameSegment ==
    (evalCalls > 0 /\ evalErr = "none") =>
        \A k \in DOMAIN differences :
            differences[k].x = evalX => evalSeg = differences[k].i

\* evaluated on the last of several knots, where the observation lies
C14_Witness ==
    /\ evalCalls > 0
    /\ evalErr = "none"
    /\ M >= 2
    /\ evalX = support_points[M]
    /\ differences[1].x = evalX
    /\ evalSeg = M

ConstraintsBuilt == matrixVar # None
EqualityConstraints == SelectSeq(constraints, LAMBDA c : c.op = "eq")
Der2Samples(i) ==
    {c.x : c \in {cc \in Range(constraints) :
                     cc.op = "ge" /\ cc.der = 2 /\ cc.col = i}}
Der3Constraints(i, x0) ==
    {c.op : c \in {cc \in Range(constraints) :
                     cc.der = 3 /\ cc.col = i /\ cc.x = x0}}

\* C17: for M knots the list holds exactly 3*M equality constraints: for
\* knot index i one on the value, one on the first and one on the second
\* derivative, each between column i and column i+1 at knot i.
C17_EqualityConstraints ==
    ConstraintsBuilt =>
        /\ Len(EqualityConstraints) = 3 * M
        /\ \A n \in 1..M : \A der \in 0..2 :
              \E k \in DOMAIN constraints :
                  constraints[k] = [op |-> "eq", der |-> der, col |-> n - 1,
                                    col2 |-> n, x |-> support_points[n]]
        /\ \A k \in DOMAIN constraints :
              constraints[k].op = "eq" =>
                  /\ constraints[k].der \in 0..2
                  /\ constraints[k].col2 = constraints[k].col + 1
                  /\ constraints[k].col \in 0..(M - 1)
                  /\ constraints[k].x = support_points[constraints[k].col + 1]

C17_Witness ==
    /\ pc = "returned"
    /\ M = 3
    /\ Len(EqualityConstraints) = 9

\* C18: for every segment with x_start < x_end the second-derivative
\* constraints of its column sit at exactly the samples x_start + k*step
\* (k = 0, 1, ...) below x_end; x_start is always one of them, and each
\* segment starts where the one before it ends.
C18_SamplesOfSegment ==
    pc = "returned" =>
        /\ \A i \in 0..M :
              LET x_start == SegStart(support_points, bounds, i)
                  x_end == SegEnd(support_points, bounds, i)
              IN x_start < x_end =>
                    /\ Der2Samples(i) =
                          {x \in {x_start + k * sampling_interval :
                                     k \in 0..(x_end - x_start)} : x < x_end}
                    /\ x_start \in Der2Samples(i)
        /\ \A i \in 0..(M - 1) :
              SegEnd(support_points, bounds, i) = SegStart(support_points, bounds, i + 1)

\* C19: every segment, the last one included, has a second-derivative
\* constraint at its end boundary x_end.
C19_EndBoundaryCovered ==
    pc = "returned" =>
        \A i \in 0..M :
            \E c \in Range(constraints) :
                /\ c.op = "ge"
                /\ c.der = 2
                /\ c.x = SegEnd(support_points, bounds, i)

\* C20: at every sample x0 of segment i the third derivative of column i is
\* constrained >= 0 if x0 < pivot, <= 0 if x0 > pivot and not at all if
\* x0 = pivot; third-derivative constraints exist at samples only.
C20_ThirdDerivative ==
    pc = "returned" =>
        \A i \in 0..M :
            LET samples == Der2Samples(i)
            IN /\ \A x0 \in samples :
                     Der3Constraints(i, x0) =
                         IF x0 < konvex_until THEN {"ge"}
                         ELSE IF x0 > konvex_until THEN {"le"}
                         ELSE {}
               /\ \A c \in Range(constraints) :
                     (c.der = 3 /\ c.col = i) => c.x \in samples

\* samples left of, on and right of the pivot
C20_Witness ==
    /\ pc = "returned"
    /\ \E i \in 0..M : \E x0 \in Der2Samples(i) :
          x0 < konvex_until /\ Der3Constraints(i, x0) = {"ge"}
    /\ \E i \in 0..M : \E x0 \in Der2Samples(i) :
          x0 > konvex_until /\ Der3Constraints(i, x0) = {"le"}
    /\ \E i \in 0..M : \E x0 \in Der2Samples(i) :
          x0 = konvex_until /\ Der3Constraints(i, x0) = {}

\* C21: the objective is the sum of one squared residual per observation,
\* repeated observations each counted; the residual of (x, y) is the value
\* at x of the polynomial of the one segment holding x, minus y.
C21_Objective ==
    pc = "returned" =>
        /\ Len(differences) = Len(points)
        /\ \A k \in DOMAIN points :
              /\ differences[k].x = points[k][1]
              /\ differences[k].y = points[k][2]
              /\ differences[k].i \in 0..M
              /\ SegStart(support_points, bounds, differences[k].i) <= points[k][1]
              /\ points[k][1] <= SegEnd(support_points, bounds, differences[k].i)
        /\ ret.status = "optimal" =>
              ret.value =
                  << SeqSum([k \in DOMAIN points |->
                        (AsmEval(ret.matrix, differences[k].i, points[k][1], 0)
                            - points[k][2])
                        * (AsmEval(ret.matrix, differences[k].i, points[k][1], 0)
                            - points[k][2])]) >>

\* one observation given twice, missed by the fitted polynomial both times
C21_Witness ==
    /\ pc = "returned"
    /\ ret.status = "optimal"
    /\ Len(points) = 2
    /\ points[1] = points[2]
    /\ AsmEval(ret.matrix, differences[1].i, points[1][1], 0) # 0
    /\ ret.value[1] >= 2

\* The formal derivative of a polynomial given by its coefficients, highest
\* power first, and its value by Horner's rule.
Deriv(c) == [j \in 1..(Len(c) - 1) |-> c[j] * (Len(c) - j)]

RECURSIVE DerivN(_, _)
DerivN(c, k) == IF k = 0 THEN c ELSE DerivN(Deriv(c), k - 1)

RECURSIVE Horner(_, _, _)
Horner(c, n, x) == IF n = 0 THEN 0 ELSE Horner(c, n - 1, x) * x + c[n]

\* C22: the evaluator of order k returns the value at x of the k-th formal
\* derivative of the polynomial of the chosen column (k = 0, 1, 2).
C22_PowerRule ==
    (evalCalls > 0 /\ evalErr = "none") =>
        LET c == DerivN(ret.matrix[evalSeg + 1], derivative)
        IN evalResult = Horner(c, Len(c), evalX)

\* a second derivative of a polynomial of the highest degree, away from 0
C22_Witness ==
    /\ evalCalls > 0
    /\ evalErr = "none"
    /\ derivative = 2
    /\ degree_of_spline = MaxDegree
    /\ evalX = MaxX
    /\ evalResult # 0
    /\ ret.matrix[evalSeg + 1][1] # 0

\* C30: an evaluator assembled over the scaled bounds B and wrapped with
\* (original_x_min, original_x_max, B), original_x_min < original_x_max,
\* fails the domain check exactly for x outside
\* [original_x_min, original_x_max], and fails in no other way.  The
\* evaluator rebuilt from an exported record is made by the same two calls.
C30_WrappedDomain ==
    (wrapOut # NoCall /\ wrapArgs[3] = bounds /\ wrapArgs[1] < wrapArgs[2]) =>
        /\ wrapOut.err \in {"none", "ValueError:domain"}
        /\ wrapOut.err = "ValueError:domain" <=>
              ~(wrapArgs[1] <= x_orig /\ x_orig <= wrapArgs[2])

\* called on the upper end of the original interval
C30_Witness ==
    /\ wrapOut # NoCall
    /\ wrapArgs[3] = bounds
    /\ wrapArgs[1] < wrapArgs[2]
    /\ x_orig = wrapArgs[2]
    /\ wrapArgs[2] # bounds[2]
    /\ wrapOut.err = "none"

\* The options in the thread's hands: the stack, and behind it the option
\* popped and not yet put back.
InHand ==
    IF tpc \in {"try", "set_price", "push"} THEN stack \o <<option>> ELSE stack

Rotate(sq, k) ==
    [i \in 1..Len(sq) |-> sq[((i - 1 + k) % Len(sq)) + 1]]

\* C25: after seeding, the options in the stack (with the one in work) are
\* the seeded list rotated by the number of iterations, so none is lost or
\* doubled and their cyclic order is kept; the i-th poll is of option
\* (i - 1) mod n of the list, so each option is polled again exactly n
\* iterations later and not in between.
C25_RoundRobin ==
    (tpc \notin {"seed", "exit"} /\ options # <<>>) =>
        LET n == Len(options)
        IN /\ InHand = Rotate(options, Len(polled))
           /\ \A i \in DOMAIN polled : polled[i] = options[((i - 1) % n) + 1]
           /\ \A i \in DOMAIN polled :
                 /\ i + n <= Len(polled) => polled[i + n] = polled[i]
                 /\ \A j \in (i + 1)..(i + n - 1) :
                       j <= Len(polled) => polled[j] # polled[i]

\* two options, and the first of them is polled for the second time after
\* a poll of the other
C25_Witness ==
    /\ Len(options) = 2
    /\ Len(polled) = 3
    /\ polled[3] = polled[1]
    /\ polled[2] # polled[1]
    /\ tpc = "head"
    /\ stack = Rotate(options, 1)

\* C26: an iteration whose ticker could not be got or read leaves points and
\* current_underlying_price as they were when it began, one that could be
\* read has added one point and stored the price of the same ticker; in both
\* cases the option is at the back of the stack when the loop is at its head
\* again.
C26_FailedPoll ==
    /\ (tpc = "push" /\ caught) =>
          <<g_points, current_underlying_price>> = iterStart
    /\ (tpc = "push" /\ ~caught) =>
          /\ g_points =
                Append(iterStart[1], <<option - ticker.underlying_price[1],
                                       ticker.mark_price[1]>>)
          /\ current_underlying_price = ticker.underlying_price
    /\ caught => tpc \in {"push", "head"}
    /\ (tpc = "head" /\ polled # <<>>) =>
          /\ stack # <<>>
          /\ stack[Len(stack)] = option
          /\ caught => <<g_points, current_underlying_price>> = iterStart

\* a ticker without mark price after a poll that went well, and the loop is
\* at its head again
C26_Witness ==
    /\ tpc = "head"
    /\ caught
    /\ ~ticker.raised
    /\ ticker.mark_price = Missing
    /\ ticker.underlying_price # Missing
    /\ g_points # <<>>
    /\ ticker.underlying_price # current_underlying_price
    /\ Len(polled) >= 2
    /\ stack[Len(stack)] = option

\* A text that is non-empty, made of integers only, holds 0 and ascends
\* strictly.
ValidText(text) ==
    /\ text # <<>>
    /\ \A k \in DOMAIN text : text[k] # <<>>
    /\ \E k \in DOMAIN text : text[k] = <<0>>
    /\ \A k \in 1..(Len(text) - 1) : text[k][1] < text[k + 1][1]

\* C27: a call of update_support_points with a valid text makes the global
\* knot list the integers of that text, a call with any other text leaves
\* it as it is; so the global list is always empty or a strictly ascending
\* list of integers that holds 0.
C27_SupportPoints ==
    /\ [](\/ g_support_points = <<>>
          \/ /\ 0 \in Range(g_support_points)
             /\ StrictlyAscending(g_support_points))
    /\ [][IF ValidText(input_text')
          THEN g_support_points' = [k \in DOMAIN input_text' |-> input_text'[k][1]]
          ELSE g_support_points' = g_support_points]_vars

\* a descending text was rejected and the list set before is still there
C27_Witness ==
    /\ g_support_points = <<0 - 1, 0, 1>>
    /\ input_text = << <<1>>, <<0>> >>

\* C23: update_function_fit_plot never raises: every run ends with the
\* empty outputs or with its five outputs, whatever the globals and the
\* degree, a and b are.  (The code has neither handler nor check: a run
\* ends in the exception of min(), of the scaling, of fit_parameter or of
\* assemble_splines.)
C23_NeverRaises ==
    cpc = "done" =>
        cbOut \in {"empty", "returned", "returned:range_error", "returned:prob"}

\* C24: what a run hands to fit_parameter, and the range it plots, are made
\* from the copies it took; each copy is the global list at the moment it
\* is taken, and no step of the polling thread or of update_support_points
\* changes a copy while the run goes on.
C24_Snapshot ==
    /\ [](/\ fitArgs # None =>
                fitArgs = FitCall(copied_points, copied_support_points,
                                  fitArgs.degree_of_spline).args
          /\ (cpc = "done" /\ cbRange # None) =>
                cbRange =
                    <<Min(StrikesOf(Filter(copied_points))) + cb_konvex_until[1],
                      Max(StrikesOf(Filter(copied_points))) + cb_konvex_until[1]>>)
    /\ [][/\ (cpc = "copy_points" /\ cpc' # cpc) => copied_points' = g_points
          /\ (cpc = "copy_support" /\ cpc' # cpc) =>
                copied_support_points' = g_support_points
          /\ cpc \in {"copy_support", "fit", "finish"} =>
                copied_points' = copied_points
          /\ cpc \in {"fit", "finish"} =>
                copied_support_points' = copied_support_points]_vars

\* a run that has fitted, while both global lists were changed after it
\* had copied them
C24_Witness ==
    /\ cpc = "finish"
    /\ Len(fitArgs.points) = Len(copied_points)
    /\ Len(g_points) > Len(copied_points)
    /\ g_support_points # copied_support_points

\* C28: points is never non-empty while current_underlying_price is None,
\* and a run that is past its emptiness check holds a number as
\* konvex_until.  (The thread appends the point before it stores the price,
\* and the run reads the price before it tests for points.)
C28_PriceSetWithPoints ==
    /\ g_points # <<>> => current_underlying_price # None
    /\ cpc \in {"copy_points", "copy_support", "fit", "finish"} =>
          cb_konvex_until # None
    /\ cbOut # "TypeError:konvex_until"

\* C29: every call of fit_parameter the dashboard makes passes a pivot
\* that is one of the knots it passes, and so never ends in the pivot
\* validation.
C29_PivotIsKnot ==
    /\ cbOut # "ValueError:pivot"
    /\ (cpc \in {"finish", "done"} /\ fitArgs # None) =>
          fitArgs.konvex_until \in Range(fitArgs.support_points)

\* a fit over two knots, with the pivot scaled onto the right bound
C29_Witness ==
    /\ cpc = "done"
    /\ cbOut = "returned"
    /\ Len(fitArgs.support_points) = 2
    /\ fitArgs.konvex_until = Num(1)

====
